---- MODULE Spec2Model ----
(***************************************************************************)
(* Model of grype/pkg/package.go: the conversion of a scanned (syft)       *)
(* package into grype's Package (New, dataFromPkg and the per-ecosystem    *)
(* extractors), the source-RPM filename parser (getNameAndELVersion) and   *)
(* the lookup ByID.                                                        *)
(*                                                                         *)
(* A Go string is a sequence of one-character strings, so that splitting,  *)
(* matching and parsing are computed and not assumed.  A Go pointer or an  *)
(* optional value is a sequence of length 0 (nil) or 1 (the value).  A Go  *)
(* interface{} value is a record whose field "shape" names its dynamic     *)
(* type.                                                                   *)
(***************************************************************************)
EXTENDS Integers, Sequences, FiniteSets, TLC

VARIABLES
    sourceRpm,  \* getNameAndELVersion: the argument
    parsed,     \* getNameAndELVersion: nil, or <<(name, version)>> once it returned
    catalog,    \* FromCatalog: the scanned packages, as catalog.Sorted() gives them
    pkgs,       \* FromCatalog: the result slice, one New(p) appended per step
    id,         \* ByID: the identifier asked for
    found       \* ByID: <<"idle">>, or <<"returned", *Package>>

vars == <<sourceRpm, parsed, catalog, pkgs, id, found>>

----------------------------------------------------------------------------
(* Bounds of the model *)

\* longest stem (the text before the suffix) of a filename given to the parser
MaxStem == 4
\* longest stem of a SourceRpm field or of an upstream qualifier of a package
MaxPkgStem == 3
\* longest package name
MaxName == 1
\* longest catalog converted and searched
MaxPkgs == 3

----------------------------------------------------------------------------
(* Strings *)

Nil == <<>>
Some(x) == <<x>>

RECURSIVE StrsOfLen(_, _)
StrsOfLen(chars, n) ==
    IF n = 0 THEN {<<>>}
    ELSE {Append(s, c) : s \in StrsOfLen(chars, n - 1), c \in chars}

\* every string over chars of length at most n
Strs(chars, n) == UNION {StrsOfLen(chars, k) : k \in 0..n}

\* [a-zA-Z]
Letters ==
    {"a", "b", "c", "d", "e", "f", "g", "h", "i", "j", "k", "l", "m",
     "n", "o", "p", "q", "r", "s", "t", "u", "v", "w", "x", "y", "z",
     "A", "B", "C", "D", "E", "F", "G", "H", "I", "J", "K", "L", "M",
     "N", "O", "P", "Q", "R", "S", "T", "U", "V", "W", "X", "Y", "Z"}
Digits == <<"0", "1", "2", "3", "4", "5", "6", "7", "8", "9">>
IsDigit(c) == \E d \in 1..10 : Digits[d] = c
DigitValue(c) == (CHOOSE d \in 1..10 : Digits[d] = c) - 1

\* the first index of character c in s, 0 when there is none (strings.Index)
IndexOf(s, c) ==
    IF \E i \in 1..Len(s) : s[i] = c
    THEN CHOOSE i \in 1..Len(s) : s[i] = c /\ \A k \in 1..(i - 1) : s[k] # c
    ELSE 0

HasPrefix(s, pre) == Len(s) >= Len(pre) /\ SubSeq(s, 1, Len(pre)) = pre
HasSuffix(s, suf) ==
    Len(s) >= Len(suf) /\ SubSeq(s, Len(s) - Len(suf) + 1, Len(s)) = suf

----------------------------------------------------------------------------
(* The source-RPM filename grammar *)

GroupNames == {"name", "version", "release", "arch"}

DotRpm == <<".", "r", "p", "m">>

\* regexp `.`: any character but a newline (Go's default, no s flag)
AnyChar(c) == c # "\n"
\* regexp `.*` over the whole of t
AnyStar(t) == \A i \in 1..Len(t) : AnyChar(t[i])
\* regexp `[a-zA-Z][^.]+` over the whole of t
ArchToken(t) ==
    /\ Len(t) >= 2
    /\ t[1] \in Letters
    /\ \A i \in 2..Len(t) : t[i] # "."

\* The ways s matches
\*   ^(?P<name>.*)-(?P<version>.*)-(?P<release>.*)\.(?P<arch>[a-zA-Z][^.]+)(\.rpm)$
\* each given by the places <<i, j, k>> of the two literal hyphens and of the
\* literal dot.
RpmSplits(s) ==
    LET n == Len(s)
        hyphens == {i \in 1..n : s[i] = "-"}
        dots == {k \in 1..n : s[k] = "."}
    IN  IF ~HasSuffix(s, DotRpm) THEN {}
        ELSE {t \in hyphens \X hyphens \X dots :
                /\ t[1] < t[2] /\ t[2] < t[3] /\ t[3] < n - 3
                /\ AnyStar(SubSeq(s, 1, t[1] - 1))
                /\ AnyStar(SubSeq(s, t[1] + 1, t[2] - 1))
                /\ AnyStar(SubSeq(s, t[2] + 1, t[3] - 1))
                /\ ArchToken(SubSeq(s, t[3] + 1, n - 4))}

\* a greedy group takes the longest text that still lets the rest match, the
\* earlier group first
Before(t, u) ==
    \/ t[1] < u[1]
    \/ t[1] = u[1] /\ t[2] < u[2]
    \/ t[1] = u[1] /\ t[2] = u[2] /\ t[3] < u[3]

\* the submatches of the match at split t: the whole match, then the text of
\* the five groups
Submatch(s, t) ==
    <<s,
      SubSeq(s, 1, t[1] - 1),
      SubSeq(s, t[1] + 1, t[2] - 1),
      SubSeq(s, t[2] + 1, t[3] - 1),
      SubSeq(s, t[3] + 1, Len(s) - 4),
      DotRpm>>

\* the match the engine prefers among splits, nil when there is none
Preferred(s, splits) ==
    IF splits = {} THEN Nil
    ELSE Submatch(s, CHOOSE t \in splits : \A u \in splits : ~Before(t, u))

\* regEx.FindStringSubmatch(str) for rpmPackageNamePattern
rpmPackageNamePattern(s) == Preferred(s, RpmSplits(s))

\* regEx.SubexpNames(): the group's index in the match
SubexpIndex(g) ==
    CASE g = "name" -> 1
      [] g = "version" -> 2
      [] g = "release" -> 3
      [] g = "arch" -> 4

\* internal.MatchCaptureGroups: every declared group name to its text, the
\* empty string for each when the pattern does not match
MatchCaptureGroups(match) ==
    [g \in GroupNames |-> IF match = Nil THEN <<>> ELSE match[SubexpIndex(g) + 1]]

\* the body of getNameAndELVersion, given the groups
NameAndELVersion(groupMatches) ==
    <<groupMatches["name"],
      groupMatches["version"] \o <<"-">> \o groupMatches["release"]>>

getNameAndELVersion(s) ==
    NameAndELVersion(MatchCaptureGroups(rpmPackageNamePattern(s)))

----------------------------------------------------------------------------
(* Package URLs *)

\* strings.Split(s, sep) for a one-character separator
RECURSIVE Split(_, _)
Split(s, sep) ==
    LET i == IndexOf(s, sep) IN
    IF i = 0 THEN <<s>>
    ELSE <<SubSeq(s, 1, i - 1)>> \o Split(SubSeq(s, i + 1, Len(s)), sep)

PurlScheme == <<"p", "k", "g", ":">>
purlUpstreamQualifier == <<"u", "p", "s", "t", "r", "e", "a", "m">>
purlEpochQualifier == <<"e", "p", "o", "c", "h">>

\* the text of the qualifiers of a Package URL: what stands between the first
\* "?" and the "#" of a subpath
AfterQuestionMark(t, q) == IF q = 0 THEN <<>> ELSE SubSeq(t, q + 1, Len(t))
BeforeSubpath(purl) == Split(purl, "#")[1]
QualifierTextOf(t) == AfterQuestionMark(t, IndexOf(t, "?"))
QualifierText(purl) == QualifierTextOf(BeforeSubpath(purl))

\* the key=value pairs of a Package URL, in order, keys and values verbatim
PairAt(f, e) ==
    IF e = 0 THEN <<f, <<>>>>
    ELSE <<SubSeq(f, 1, e - 1), SubSeq(f, e + 1, Len(f))>>
PairOf(f) == PairAt(f, IndexOf(f, "="))
PairsOf(fields) == [i \in 1..Len(fields) |-> PairOf(fields[i])]
PairsIn(purl, text) ==
    IF ~HasPrefix(purl, PurlScheme) \/ text = <<>> THEN <<>>
    ELSE PairsOf(Split(text, "&"))
QualifierPairs(purl) == PairsIn(purl, QualifierText(purl))

\* the last pair of key k (a later pair overwrites an earlier one)
LastOf(pairs, k) ==
    CHOOSE i \in 1..Len(pairs) :
        /\ pairs[i][1] = k
        /\ \A j \in (i + 1)..Len(pairs) : pairs[j][1] # k
MapOf(pairs) ==
    [k \in {pairs[i][1] : i \in 1..Len(pairs)} |-> pairs[LastOf(pairs, k)][2]]
\* getPURLQualifiers: the mapping from qualifier key to value; empty for a
\* malformed Package URL and for one without qualifiers
getPURLQualifiers(purl) == MapOf(QualifierPairs(purl))

\* m[k] of a Go map[string]string: the empty string for a key not in m
MapGet(m, k) == IF k \in DOMAIN m THEN m[k] ELSE <<>>

\* the value of a string of decimal digits
RECURSIVE DecimalValue(_)
DecimalValue(ds) ==
    IF ds = <<>> THEN 0
    ELSE 10 * DecimalValue(SubSeq(ds, 1, Len(ds) - 1)) + DigitValue(ds[Len(ds)])

\* strconv.Atoi: [ok, value].  An optional sign, then one or more decimal
\* digits and nothing else.  (The inputs of the model stay far below the
\* range of an int, so the out-of-range error does not arise.)
AtoiDigits(negative, ds) ==
    IF ds = <<>> \/ \E i \in 1..Len(ds) : ~IsDigit(ds[i])
    THEN [ok |-> FALSE, value |-> 0]
    ELSE [ok |-> TRUE,
          value |-> IF negative THEN 0 - DecimalValue(ds) ELSE DecimalValue(ds)]
Atoi(s) ==
    IF s # <<>> /\ s[1] \in {"+", "-"}
    THEN AtoiDigits(s[1] = "-", Tail(s))
    ELSE AtoiDigits(FALSE, s)

----------------------------------------------------------------------------
(* Kinds, types and shapes *)

\* syft's pkg.MetadataType values this code switches on
DpkgMetadataKind == "DpkgMetadata"
RpmdbMetadataKind == "RpmdbMetadata"
JavaMetadataKind == "JavaMetadata"
ApkMetadataKind == "ApkMetadata"
\* grype's MetadataType values; the zero value "" is "none"
RpmdbMetadataType == "RpmdbMetadata"
JavaMetadataType == "JavaMetadata"
NoMetadataType == ""
\* syft's pkg.Type values this code switches on
ApkPkg == "apk"
DebPkg == "deb"
RpmPkg == "rpm"

\* the nil interface{} value
NilMetadata == [shape |-> "nil"]

UpstreamPackage(name, version) == [Name |-> name, Version |-> version]

----------------------------------------------------------------------------
(* The extractors *)

\* the body of dpkgDataFromPURL, given the qualifier and the place of its first "@"
dpkgUpstream(upstream, at) ==
    IF upstream = <<>> THEN <<>>
    ELSE IF at = 0
         THEN <<UpstreamPackage(upstream, <<>>)>>
         ELSE <<UpstreamPackage(SubSeq(upstream, 1, at - 1),
                                SubSeq(upstream, at + 1, Len(upstream)))>>
dpkgDataFromQualifier(upstream) == dpkgUpstream(upstream, IndexOf(upstream, "@"))
dpkgDataFromPURL(purl) ==
    dpkgDataFromQualifier(MapGet(getPURLQualifiers(purl), purlUpstreamQualifier))

\* mutant: the Package URL is read when the blob gives no source
dpkgDataFromPkg_OrPurl(pk) ==
    IF pk.Metadata.shape = "pkg.DpkgMetadata" /\ pk.Metadata.Source # <<>>
    THEN <<UpstreamPackage(pk.Metadata.Source, pk.Metadata.SourceVersion)>>
    ELSE dpkgDataFromPURL(pk.PURL)

dpkgDataFromPkg(pk) ==
    IF pk.Metadata.shape = "pkg.DpkgMetadata"
    THEN IF pk.Metadata.Source # <<>>
         THEN <<UpstreamPackage(pk.Metadata.Source, pk.Metadata.SourceVersion)>>
         ELSE <<>>
    ELSE <<>>

\* mutant: the source package is kept when it has the package's own name
rpmdbUpstreams_NoSelfCheck(pk, nv) ==
    IF pk.Metadata.SourceRpm # <<>>
    THEN IF nv[1] = <<>> /\ nv[2] = <<>> THEN <<>>
         ELSE <<UpstreamPackage(nv[1], nv[2])>>
    ELSE <<>>

\* the upstreams of rpmdbDataFromPkg, given the parsed <<name, version>>
rpmdbUpstreams(pk, nv) ==
    IF pk.Metadata.SourceRpm # <<>>
    THEN IF nv[1] = <<>> /\ nv[2] = <<>> THEN <<>>
         ELSE IF nv[1] # pk.Name
              THEN <<UpstreamPackage(nv[1], nv[2])>>
              ELSE <<>>
    ELSE <<>>

\* [metadata, upstreams]; metadata is a *RpmdbMetadata
rpmdbDataFromPkg(pk) ==
    IF pk.Metadata.shape = "pkg.RpmdbMetadata"
    THEN [metadata |->
             IF pk.Metadata.Epoch # Nil
             THEN Some([shape |-> "RpmdbMetadata", Epoch |-> pk.Metadata.Epoch])
             ELSE Nil,
          upstreams |-> rpmdbUpstreams(pk, getNameAndELVersion(pk.Metadata.SourceRpm))]
    ELSE [metadata |-> Nil, upstreams |-> <<>>]

\* the parts of rpmdbDataFromPURL, given the qualifiers read
rpmdbEpoch(epoch, conv) ==
    IF epoch # <<>> /\ conv.ok
    THEN Some([shape |-> "RpmdbMetadata", Epoch |-> Some(conv.value)])
    ELSE Nil
rpmdbPurlUpstreams(upstream, nv) ==
    IF upstream # <<>> THEN <<UpstreamPackage(nv[1], nv[2])>> ELSE <<>>

\* mutant: an epoch that does not parse ends the extraction
rpmdbDataFromQualifiers_ReturnOnError(upstream, epoch) ==
    IF epoch # <<>> /\ ~Atoi(epoch).ok
    THEN [metadata |-> Nil, upstreams |-> <<>>]
    ELSE [metadata |-> rpmdbEpoch(epoch, Atoi(epoch)),
          upstreams |-> rpmdbPurlUpstreams(upstream, getNameAndELVersion(upstream))]

rpmdbDataFromQualifiers(upstream, epoch) ==
    [metadata |-> rpmdbEpoch(epoch, Atoi(epoch)),
     upstreams |-> rpmdbPurlUpstreams(upstream, getNameAndELVersion(upstream))]
rpmdbQualifiers(qualifiers) ==
    rpmdbDataFromQualifiers(MapGet(qualifiers, purlUpstreamQualifier),
                            MapGet(qualifiers, purlEpochQualifier))
\* [metadata, upstreams]; metadata is a *RpmdbMetadata
rpmdbDataFromPURL(purl) == rpmdbQualifiers(getPURLQualifiers(purl))

\* mutant: the fragment is allocated before the blob's shape is checked
javaDataFromPkg_EmptyOnMismatch(pk) ==
    IF pk.Metadata.shape = "pkg.JavaMetadata"
    THEN Some([shape |-> "JavaMetadata",
               VirtualPath |-> pk.Metadata.VirtualPath,
               PomArtifactID |->
                   IF pk.Metadata.PomProperties # Nil
                   THEN pk.Metadata.PomProperties[1].ArtifactID ELSE "",
               PomGroupID |->
                   IF pk.Metadata.PomProperties # Nil
                   THEN pk.Metadata.PomProperties[1].GroupID ELSE "",
               ManifestName |->
                   IF pk.Metadata.Manifest # Nil
                      /\ "Name" \in DOMAIN pk.Metadata.Manifest[1].Main
                   THEN pk.Metadata.Manifest[1].Main["Name"] ELSE ""])
    ELSE Some([shape |-> "JavaMetadata", VirtualPath |-> "", PomArtifactID |-> "",
               PomGroupID |-> "", ManifestName |-> ""])

\* a *JavaMetadata
javaDataFromPkg(pk) ==
    IF pk.Metadata.shape = "pkg.JavaMetadata"
    THEN LET value == pk.Metadata
             artifact == IF value.PomProperties # Nil
                         THEN value.PomProperties[1].ArtifactID ELSE ""
             group == IF value.PomProperties # Nil
                      THEN value.PomProperties[1].GroupID ELSE ""
             name == IF value.Manifest # Nil /\ "Name" \in DOMAIN value.Manifest[1].Main
                     THEN value.Manifest[1].Main["Name"] ELSE ""
         IN  Some([shape |-> "JavaMetadata",
                   VirtualPath |-> value.VirtualPath,
                   PomArtifactID |-> artifact,
                   PomGroupID |-> group,
                   ManifestName |-> name])
    ELSE Nil

apkDataFromQualifier(upstream) ==
    IF upstream # <<>> THEN <<UpstreamPackage(upstream, <<>>)>> ELSE <<>>
apkDataFromPURL(purl) ==
    apkDataFromQualifier(MapGet(getPURLQualifiers(purl), purlUpstreamQualifier))

apkDataFromPkg(pk) ==
    IF pk.Metadata.shape = "pkg.ApkMetadata"
    THEN IF pk.Metadata.OriginPackage # <<>>
         THEN <<UpstreamPackage(pk.Metadata.OriginPackage, <<>>)>>
         ELSE <<>>
    ELSE <<>>

----------------------------------------------------------------------------
(* The dispatcher and the builder *)

Triple(metadataType, metadata, upstreams) ==
    [metadataType |-> metadataType, metadata |-> metadata, upstreams |-> upstreams]

\* mutant: the kind is set outside the nil check
WithMetadata_TagAlways(m, t, upstreams) ==
    Triple(t, IF m # Nil THEN m[1] ELSE NilMetadata, upstreams)

\* `if m != nil { metadata = *m; metadataType = t }` around an extractor's result
WithMetadata(m, t, upstreams) ==
    IF m # Nil THEN Triple(t, m[1], upstreams)
    ELSE Triple(NoMetadataType, NilMetadata, upstreams)
FromRpmdb(r) == WithMetadata(r.metadata, RpmdbMetadataType, r.upstreams)

\* mutant: the RPM case of the inner switch is its default case
purlDataFromPkg_RpmByDefault(pk) ==
    CASE pk.Type = ApkPkg ->
            Triple(NoMetadataType, NilMetadata, apkDataFromPURL(pk.PURL))
      [] pk.Type = DebPkg ->
            Triple(NoMetadataType, NilMetadata, dpkgDataFromPURL(pk.PURL))
      [] OTHER -> FromRpmdb(rpmdbDataFromPURL(pk.PURL))

\* the inner switch of dataFromPkg, on p.Type
purlDataFromPkg(pk) ==
    CASE pk.Type = ApkPkg ->
            Triple(NoMetadataType, NilMetadata, apkDataFromPURL(pk.PURL))
      [] pk.Type = DebPkg ->
            Triple(NoMetadataType, NilMetadata, dpkgDataFromPURL(pk.PURL))
      [] pk.Type = RpmPkg -> FromRpmdb(rpmdbDataFromPURL(pk.PURL))
      [] OTHER -> Triple(NoMetadataType, NilMetadata, <<>>)

dataFromPkg(pk) ==
    CASE pk.MetadataType = DpkgMetadataKind ->
            Triple(NoMetadataType, NilMetadata, dpkgDataFromPkg(pk))
      [] pk.MetadataType = RpmdbMetadataKind -> FromRpmdb(rpmdbDataFromPkg(pk))
      [] pk.MetadataType = JavaMetadataKind ->
            WithMetadata(javaDataFromPkg(pk), JavaMetadataType, <<>>)
      [] pk.MetadataType = ApkMetadataKind ->
            Triple(NoMetadataType, NilMetadata, apkDataFromPkg(pk))
      [] pk.MetadataType = "" -> purlDataFromPkg(pk)
      [] OTHER -> Triple(NoMetadataType, NilMetadata, <<>>)

\* New's return value, given dataFromPkg's triple
Build(pk, d) ==
    [ID |-> pk.id,
     Name |-> pk.Name,
     Version |-> pk.Version,
     Locations |-> pk.Locations,
     Licenses |-> pk.Licenses,
     Language |-> pk.Language,
     Type |-> pk.Type,
     CPEs |-> pk.CPEs,
     PURL |-> pk.PURL,
     Upstreams |-> d.upstreams,
     MetadataType |-> d.metadataType,
     Metadata |-> d.metadata]

New(pk) == Build(pk, dataFromPkg(pk))

\* ByID's loop from index i on: a pointer to (a copy of) the first package whose
\* ID is the one asked for, nil when the loop ends
RECURSIVE ByIDFrom(_, _, _)
ByIDFrom(i, wanted, list) ==
    IF i > Len(list) THEN Nil
    ELSE IF list[i].ID = wanted THEN Some(list[i])
    ELSE ByIDFrom(i + 1, wanted, list)

\* mutant: the loop does not stop at the first match
ByID_Last(wanted, list) ==
    IF \E i \in 1..Len(list) : list[i].ID = wanted
    THEN Some(list[CHOOSE i \in 1..Len(list) :
                      /\ list[i].ID = wanted
                      /\ \A j \in (i + 1)..Len(list) : list[j].ID # wanted])
    ELSE Nil

ByID(wanted, list) == ByIDFrom(1, wanted, list)

----------------------------------------------------------------------------
(* The inputs *)

SrcRpm == <<".", "s", "r", "c", ".", "r", "p", "m">>
DotSrc == <<".", "s", "r", "c">>
ExampleSourceRpm ==
    <<"u", "t", "i", "l", "-", "l", "i", "n", "u", "x", "-", "n", "g", "-",
      "2", ".", "1", "7", ".", "2", "-", "1", "2", ".", "2", "8", ".", "e",
      "l", "6", "_", "9", ".", "2", ".", "s", "r", "c", ".", "r", "p", "m">>
ExamplePURL ==
    <<"p", "k", "g", ":", "r", "p", "m", "/", "u", "t", "i", "l", "-", "l",
      "i", "n", "u", "x", "-", "n", "g", "@", "2", ".", "1", "7", ".", "2",
      "?", "u", "p", "s", "t", "r", "e", "a", "m", "=", "u", "t", "i", "l",
      "-", "l", "i", "n", "u", "x", "-", "n", "g", "-", "2", ".", "1", "7",
      ".", "2", "-", "1", "2", ".", "2", "8", ".", "e", "l", "6", "_", "9",
      ".", "2", ".", "s", "r", "c", ".", "r", "p", "m", "&", "e", "p", "o",
      "c", "h", "=", "4">>

\* filenames given to the parser: every stem over these characters, followed by
\* a suffix with or without ".rpm", with or without an alphabetic arch token
ParserChars == {"a", "1", "-", ".", "\n"}
ParserSuffixes ==
    {<<>>, DotRpm, SrcRpm, DotSrc, <<".", "1", "a", ".", "r", "p", "m">>,
     <<".", "a", ".", "r", "p", "m">>, <<".", "s", "-", "c", ".", "r", "p", "m">>}
Names == Strs({"a", "-"}, MaxName)

\* SourceRpm fields and rpm upstream qualifiers: empty, matching the grammar
\* (two hyphens and ".src.rpm") and not matching it
SourceRpms ==
    {<<>>} \cup {stem \o suffix : stem \in Strs({"a", "-"}, MaxPkgStem),
                                  suffix \in {SrcRpm, DotSrc}}

DpkgBlobs ==
    [shape : {"pkg.DpkgMetadata"}, Source : {<<>>, <<"a">>},
     SourceVersion : {<<>>, <<"1">>}]
RpmBlobs ==
    [shape : {"pkg.RpmdbMetadata"}, SourceRpm : SourceRpms,
     Epoch : {Nil, Some(0), Some(4)}]
ApkBlobs == [shape : {"pkg.ApkMetadata"}, OriginPackage : {<<>>, <<"a">>}]
JavaBlobs ==
    [shape : {"pkg.JavaMetadata"}, VirtualPath : {"/opt/a.jar"},
     PomProperties : {Nil, Some([ArtifactID |-> "art", GroupID |-> "grp"])},
     Manifest : {Nil, Some([Main |-> [k \in {"Name"} |-> "mf"]]),
                 Some([Main |-> [k \in {"Built-By"} |-> "me"]])}]
\* a blob of a shape none of the extractors reads
OtherBlob == [shape |-> "pkg.PythonPackageMetadata"]
Blobs ==
    DpkgBlobs \cup RpmBlobs \cup ApkBlobs \cup JavaBlobs \cup {NilMetadata, OtherBlob}

TypedKinds == {DpkgMetadataKind, RpmdbMetadataKind, JavaMetadataKind, ApkMetadataKind}
OtherKind == "PythonPackageMetadata"
Kinds == TypedKinds \cup {"", OtherKind}
Types == {RpmPkg, DebPkg, ApkPkg, "java-archive", "npm"}

\* Package URLs: a prefix, then the qualifiers given
Absent == <<"absent">>
UpstreamValues ==
    SourceRpms \cup {<<"a">>, <<"@", "1">>, <<"a", "@", "1">>, <<"a", "@", "1", "@", "2">>}
EpochValues ==
    {<<>>, <<"4">>, <<"0">>, <<"+", "4">>, <<"-", "1">>, <<"x">>, <<"4", "x">>,
     <<"n", "o", "t", "-", "a", "-", "n", "u", "m", "b", "e", "r">>}
PurlPrefix == <<"p", "k", "g", ":", "r", "p", "m", "/", "a", "@", "1">>
UpstreamField(u) == purlUpstreamQualifier \o <<"=">> \o u
EpochField(e) == purlEpochQualifier \o <<"=">> \o e
PurlOf(u, e) ==
    CASE u = Absent /\ e = Absent -> PurlPrefix
      [] u = Absent /\ e # Absent -> PurlPrefix \o <<"?">> \o EpochField(e)
      [] u # Absent /\ e = Absent -> PurlPrefix \o <<"?">> \o UpstreamField(u)
      [] OTHER -> PurlPrefix \o <<"?">> \o UpstreamField(u) \o <<"&">> \o EpochField(e)
\* the second has no scheme, the third names the epoch first and has a subpath
OddPurls ==
    {<<>>,
     <<"r", "p", "m", "/", "a", "@", "1", "?", "u", "p", "s", "t", "r", "e",
      "a", "m", "=", "a", "-", "-", ".", "s", "r", "c", ".", "r", "p", "m",
      "&", "e", "p", "o", "c", "h", "=", "4">>,
     <<"p", "k", "g", ":", "r", "p", "m", "/", "a", "@", "1", "?", "e", "p",
      "o", "c", "h", "=", "4", "&", "u", "p", "s", "t", "r", "e", "a", "m",
      "=", "a", "-", "-", ".", "s", "r", "c", ".", "r", "p", "m", "#", "x",
      "?", "e", "p", "o", "c", "h", "=", "5">>,
     ExamplePURL}
SmallPurls == {<<>>, PurlOf(SrcRpm, <<"4">>), PurlOf(<<"a", "-", "-">> \o SrcRpm, <<"7">>)}

Scanned(i, name, type, purl, kind, blob) ==
    [id |-> i, Name |-> name, Version |-> <<"1">>, Locations |-> <<"/var/lib/db">>,
     Licenses |-> <<"MIT">>, Language |-> "", Type |-> type, CPEs |-> <<"cpe:2.3:a">>,
     PURL |-> purl, MetadataType |-> kind, Metadata |-> blob]

\* the pairs of packages that declare a typed kind, over the blobs, names,
\* types and Package URLs that can tell the typed path from the fallback
Tier1Blobs ==
    {[shape |-> "pkg.RpmdbMetadata", SourceRpm |-> <<"a", "-", "-">> \o SrcRpm,
      Epoch |-> Some(4)],
     [shape |-> "pkg.DpkgMetadata", Source |-> <<"a">>, SourceVersion |-> <<"1">>],
     [shape |-> "pkg.ApkMetadata", OriginPackage |-> <<"a">>],
     [shape |-> "pkg.JavaMetadata", VirtualPath |-> "/opt/a.jar",
      PomProperties |-> Nil, Manifest |-> Nil]}
Tier1Purls == {<<>>, PurlOf(<<"-", "-", "-">> \o SrcRpm, <<"7">>)}
Tier1Inputs ==
    {Scanned("id1", n, t, u, k, b) :
        n \in {<<"a">>, <<"-">>}, t \in {RpmPkg, DebPkg}, u \in Tier1Purls,
        k \in TypedKinds, b \in Tier1Blobs}

\* the catalogs searched: identifiers may repeat
IDs == {"id1", "id2", "id3"}
CatalogInputs ==
    {Scanned(i, n, RpmPkg, <<>>, "", NilMetadata) :
        i \in {"id1", "id2"}, n \in {<<"a">>, <<"-">>}}
RECURSIVE SeqsOfLen(_, _)
SeqsOfLen(S, n) ==
    IF n = 0 THEN {<<>>}
    ELSE {Append(q, x) : q \in SeqsOfLen(S, n - 1), x \in S}

----------------------------------------------------------------------------
(* The operations *)

Idle == <<"idle">>

\* getNameAndELVersion(sourceRpm) returns
Parse ==
    /\ parsed = Nil
    /\ parsed' = Some(getNameAndELVersion(sourceRpm))
    /\ UNCHANGED <<sourceRpm, catalog, pkgs, id, found>>

\* one turn of FromCatalog's loop: result = append(result, New(p))
Convert ==
    /\ Len(pkgs) < Len(catalog)
    /\ pkgs' = Append(pkgs, New(catalog[Len(pkgs) + 1]))
    /\ UNCHANGED <<sourceRpm, parsed, catalog, id, found>>

\* ByID(id, pkgs) on the slice FromCatalog returned
Lookup ==
    /\ Len(pkgs) = Len(catalog)
    /\ found = Idle
    /\ \E wanted \in IDs :
          /\ id' = wanted
          /\ found' = <<"returned", ByID(wanted, pkgs)>>
    /\ UNCHANGED <<sourceRpm, parsed, catalog, pkgs>>

NoParser == sourceRpm = <<>> /\ parsed = Nil
NoLookup == id = "" /\ found = Idle

\* the conversion of one scanned package
\* every kind with every blob; and every Package URL where the fallback reads it
Init ==
    /\ \/ \E n \in Names, t \in Types, u \in SmallPurls, k \in Kinds, b \in Blobs :
             catalog = <<Scanned("id1", n, t, u, k, b)>>
       \/ \E n \in Names, t \in Types, k \in {"", OtherKind},
             u \in UpstreamValues \cup {Absent}, e \in EpochValues \cup {Absent} :
             catalog = <<Scanned("id1", n, t, PurlOf(u, e), k, NilMetadata)>>
       \/ \E n \in Names, t \in Types, k \in {"", OtherKind}, u \in OddPurls :
             catalog = <<Scanned("id1", n, t, u, k, NilMetadata)>>
    /\ pkgs = <<>>
    /\ NoParser /\ NoLookup
Next == Convert
Spec == Init /\ [][Next]_vars

\* the filename parser alone
InitParser ==
    /\ \/ \E stem \in Strs(ParserChars, MaxStem), suffix \in ParserSuffixes :
             sourceRpm = stem \o suffix
       \/ sourceRpm = ExampleSourceRpm
    /\ parsed = Nil
    /\ catalog = <<>> /\ pkgs = <<>>
    /\ NoLookup
NextParser == Parse
SpecParser == InitParser /\ [][NextParser]_vars

\* the conversion of two scanned packages that declare a typed kind
InitTier1 ==
    /\ \E pk \in Tier1Inputs, qk \in Tier1Inputs : catalog = <<pk, qk>>
    /\ pkgs = <<>>
    /\ NoParser /\ NoLookup
NextTier1 == Convert
SpecTier1 == InitTier1 /\ [][NextTier1]_vars

\* the conversion of a catalog and a lookup in the result
InitCatalog ==
    /\ catalog \in UNION {SeqsOfLen(CatalogInputs, n) : n \in 0..MaxPkgs}
    /\ pkgs = <<>>
    /\ NoParser /\ NoLookup
NextCatalog == Convert \/ Lookup
SpecCatalog == InitCatalog /\ [][NextCatalog]_vars

----------------------------------------------------------------------------
(* Properties *)

\* the packages converted so far: pkgs[i] was built by New from catalog[i]
Built == 1..Len(pkgs)
TripleOf(o) == Triple(o.MetadataType, o.Metadata, o.Upstreams)
NoData == Triple(NoMetadataType, NilMetadata, <<>>)
MatchesGrammar(s) == RpmSplits(s) # {}
HyphenCount(t) == Cardinality({i \in 1..Len(t) : t[i] = "-"})

\* C1: every UpstreamPackage of a package built by New has a non-empty name, on
\* the typed paths and on the Package-URL fallback paths alike.
C1_UpstreamNamesNonEmpty ==
    \A i \in Built : \A j \in 1..Len(pkgs[i].Upstreams) :
        pkgs[i].Upstreams[j].Name # <<>>

\* C2: for a filename that matches name-version-release.arch.rpm the parser
\* returns the captured name and version-release (the filename is that name, a
\* hyphen, that version, a dot, an arch token and ".rpm", and the version holds
\* the one hyphen that joins version and release); for a filename that does
\* not match, it returns the empty name and the empty version.
C2_ParserContract ==
    parsed # Nil =>
        IF MatchesGrammar(sourceRpm)
        THEN /\ HyphenCount(parsed[1][2]) = 1
             /\ \E k \in 1..Len(sourceRpm) :
                   /\ sourceRpm[k] = "."
                   /\ ArchToken(SubSeq(sourceRpm, k + 1, Len(sourceRpm) - 4))
                   /\ sourceRpm = parsed[1][1] \o <<"-">> \o parsed[1][2]
                                    \o SubSeq(sourceRpm, k, Len(sourceRpm) - 4) \o DotRpm
        ELSE parsed[1] = <<<<>>, <<>>>>

\* C3: the kind tag and the fragment of a built package agree: the tag is none
\* exactly when the fragment is nil, rpmdb exactly when it is an RpmdbMetadata,
\* java exactly when it is a JavaMetadata.
C3_KindMatchesFragment ==
    \A i \in Built :
        /\ pkgs[i].MetadataType = NoMetadataType <=> pkgs[i].Metadata = NilMetadata
        /\ pkgs[i].MetadataType = RpmdbMetadataType
              <=> pkgs[i].Metadata.shape = "RpmdbMetadata"
        /\ pkgs[i].MetadataType = JavaMetadataType
              <=> pkgs[i].Metadata.shape = "JavaMetadata"
        /\ pkgs[i].MetadataType \in {NoMetadataType, RpmdbMetadataType, JavaMetadataType}

\* an rpmdb fragment was built from the epoch qualifier of a Package URL
C3_Witness ==
    /\ Len(pkgs) = 1
    /\ catalog[1].MetadataType = ""
    /\ pkgs[1].MetadataType = RpmdbMetadataType
    /\ pkgs[1].Metadata.Epoch = Some(4)

IsTypedRpm(pk) ==
    pk.MetadataType = RpmdbMetadataKind /\ pk.Metadata.shape = "pkg.RpmdbMetadata"

\* C4: a typed RPM package whose SourceRpm parses to the package's own name has
\* no upstreams; its epoch fragment is there exactly when the blob's epoch is
\* not nil, and carries that epoch.
C4_SelfReferenceSuppressed ==
    \A i \in Built :
        (/\ IsTypedRpm(catalog[i])
         /\ MatchesGrammar(catalog[i].Metadata.SourceRpm)
         /\ getNameAndELVersion(catalog[i].Metadata.SourceRpm)[1] = catalog[i].Name)
        => /\ pkgs[i].Upstreams = <<>>
           /\ IF catalog[i].Metadata.Epoch # Nil
              THEN /\ pkgs[i].MetadataType = RpmdbMetadataType
                   /\ pkgs[i].Metadata =
                        [shape |-> "RpmdbMetadata", Epoch |-> catalog[i].Metadata.Epoch]
              ELSE /\ pkgs[i].MetadataType = NoMetadataType
                   /\ pkgs[i].Metadata = NilMetadata

\* package "a" built from a--.src.rpm with epoch 0
C4_Witness ==
    /\ Len(pkgs) = 1
    /\ IsTypedRpm(catalog[1])
    /\ catalog[1].Name = <<"a">>
    /\ catalog[1].Metadata.SourceRpm = <<"a", "-", "-">> \o SrcRpm
    /\ catalog[1].Metadata.Epoch = Some(0)
    /\ pkgs[1].MetadataType = RpmdbMetadataType

\* C5: a typed RPM package whose non-empty SourceRpm does not match the grammar
\* has no upstreams, whatever its own name.
C5_DegradedParseEmitsNothing ==
    \A i \in Built :
        (/\ IsTypedRpm(catalog[i])
         /\ catalog[i].Metadata.SourceRpm # <<>>
         /\ ~MatchesGrammar(catalog[i].Metadata.SourceRpm))
        => pkgs[i].Upstreams = <<>>

SameTypedInput(a, b) ==
    /\ a.MetadataType \in TypedKinds
    /\ a.MetadataType = b.MetadataType
    /\ a.Metadata = b.Metadata
    /\ a.Name = b.Name

\* C6: two packages that declare the same typed kind and have the same blob and
\* the same name get the same kind, fragment and upstreams, whatever their
\* Package URLs and type tags.
C6_TypedPathIgnoresPurl ==
    \A i \in Built, j \in Built :
        SameTypedInput(catalog[i], catalog[j]) => TripleOf(pkgs[i]) = TripleOf(pkgs[j])

\* two such packages with different Package URLs and type tags, with upstreams
C6_Witness ==
    /\ Len(pkgs) = 2
    /\ SameTypedInput(catalog[1], catalog[2])
    /\ catalog[1].PURL # catalog[2].PURL
    /\ catalog[1].Type # catalog[2].Type
    /\ getPURLQualifiers(catalog[2].PURL) # <<>>
    /\ pkgs[1].Upstreams # <<>>

InTier3(pk) ==
    \/ pk.MetadataType \notin TypedKinds \cup {""}
    \/ pk.MetadataType = "" /\ pk.Type \notin {RpmPkg, DebPkg, ApkPkg}

\* C7: a package of any other kind, or of no kind and a type that is not RPM,
\* Debian or Alpine, gets kind none, no fragment and no upstreams, whatever its
\* Package URL holds.
C7_OtherKindsYieldNothing ==
    \A i \in Built : InTier3(catalog[i]) => TripleOf(pkgs[i]) = NoData

\* an RPM-type package of another kind whose Package URL has both qualifiers
C7_Witness ==
    /\ Len(pkgs) = 1
    /\ catalog[1].MetadataType = OtherKind
    /\ catalog[1].Type = RpmPkg
    /\ catalog[1].PURL = PurlOf(<<"a", "-", "-">> \o SrcRpm, <<"4">>)

\* the integer an epoch qualifier of the inputs stands for, nil when it is none
ExpectedEpoch(e) ==
    CASE e = <<"4">> -> Some(4)
      [] e = <<"0">> -> Some(0)
      [] e = <<"+", "4">> -> Some(4)
      [] e = <<"-", "1">> -> Some(0 - 1)
      [] OTHER -> Nil
ExpectedRpmUpstreams(u) ==
    IF u \in {Absent, <<>>} THEN <<>>
    ELSE <<UpstreamPackage(getNameAndELVersion(u)[1], getNameAndELVersion(u)[2])>>
ExpectedRpmFallback(u, e) ==
    IF ExpectedEpoch(e) # Nil
    THEN Triple(RpmdbMetadataType,
                [shape |-> "RpmdbMetadata", Epoch |-> ExpectedEpoch(e)],
                ExpectedRpmUpstreams(u))
    ELSE Triple(NoMetadataType, NilMetadata, ExpectedRpmUpstreams(u))
IsRpmFallback(pk) == pk.MetadataType = "" /\ pk.Type = RpmPkg

\* C8: in the fallback for an RPM-type package without a kind, the result has
\* kind rpmdb with epoch n exactly when the epoch qualifier is an integer n;
\* otherwise it has kind none and no fragment; the upstream derived from the
\* upstream qualifier does not depend on the epoch; and the example Package URL
\* yields util-linux-ng / 2.17.2-12.28.el6_9.2 with epoch 4.
C8_RpmFallbackEpoch ==
    \A i \in Built :
        IsRpmFallback(catalog[i]) =>
            /\ \A u \in UpstreamValues \cup {Absent}, e \in EpochValues \cup {Absent} :
                  catalog[i].PURL = PurlOf(u, e)
                     => TripleOf(pkgs[i]) = ExpectedRpmFallback(u, e)
            /\ catalog[i].PURL = ExamplePURL =>
                  TripleOf(pkgs[i]) =
                     Triple(RpmdbMetadataType,
                            [shape |-> "RpmdbMetadata", Epoch |-> Some(4)],
                            <<UpstreamPackage(<<"u", "t", "i", "l", "-", "l", "i", "n", "u", "x", "-", "n", "g">>,
                                              <<"2", ".", "1", "7", ".", "2", "-", "1", "2", ".", "2", "8", ".", "e",
                                              "l", "6", "_", "9", ".", "2">>)>>)

\* the epoch does not parse and the upstream is still derived
C8_Witness ==
    /\ Len(pkgs) = 1
    /\ IsRpmFallback(catalog[1])
    /\ catalog[1].PURL = PurlOf(<<"a", "-", "-">> \o SrcRpm,
                                <<"n", "o", "t", "-", "a", "-", "n", "u", "m", "b", "e", "r">>)
    /\ pkgs[1].MetadataType = NoMetadataType
    /\ pkgs[1].Upstreams = <<UpstreamPackage(<<"a">>, <<"-">>)>>

Matching == {i \in 1..Len(pkgs) : pkgs[i].ID = id}

\* C9: ByID returns nil when no package of the slice has the identifier, and
\* otherwise the package at the lowest index that has it; the slice stays the
\* conversion of the catalog.
C9_ByIDFirstMatch ==
    found # Idle =>
        /\ Matching = {} => found[2] = Nil
        /\ Matching # {} =>
              found[2] = Some(pkgs[CHOOSE i \in Matching : \A j \in Matching : i <= j])
        /\ pkgs = [i \in 1..Len(catalog) |-> New(catalog[i])]

\* two different packages share the identifier asked for
C9_Witness ==
    /\ found # Idle
    /\ \E i \in Matching, j \in Matching : i < j /\ pkgs[i] # pkgs[j]

ExpectedShape(kind) ==
    CASE kind = DpkgMetadataKind -> "pkg.DpkgMetadata"
      [] kind = RpmdbMetadataKind -> "pkg.RpmdbMetadata"
      [] kind = JavaMetadataKind -> "pkg.JavaMetadata"
      [] kind = ApkMetadataKind -> "pkg.ApkMetadata"
IsMismatched(pk) ==
    pk.MetadataType \in TypedKinds /\ pk.Metadata.shape # ExpectedShape(pk.MetadataType)

\* C10: a package that declares a typed kind with a blob of another shape (or no
\* blob) is still built: kind none, no fragment, no upstreams, and the common
\* fields copied from the scanned package.
C10_MismatchYieldsEmptyPackage ==
    \A i \in Built :
        IsMismatched(catalog[i]) =>
            pkgs[i] = [ID |-> catalog[i].id,
                       Name |-> catalog[i].Name,
                       Version |-> catalog[i].Version,
                       Locations |-> catalog[i].Locations,
                       Licenses |-> catalog[i].Licenses,
                       Language |-> catalog[i].Language,
                       Type |-> catalog[i].Type,
                       CPEs |-> catalog[i].CPEs,
                       PURL |-> catalog[i].PURL,
                       Upstreams |-> <<>>,
                       MetadataType |-> NoMetadataType,
                       Metadata |-> NilMetadata]

\* a package that declares Java metadata and carries an RPM blob
C10_Witness ==
    /\ Len(pkgs) = 1
    /\ catalog[1].MetadataType = JavaMetadataKind
    /\ catalog[1].Metadata.shape = "pkg.RpmdbMetadata"
    /\ catalog[1].PURL # <<>>

====
